---- MODULE Spec2Model ----
(***************************************************************************)
(* Session-affine load balancing of the activator (tardieu/serving).       *)
(*                                                                         *)
(*   pkg/activator/net/store.go : the load-balancing policies              *)
(*       randomChoice2Policy, firstAvailableLBPolicy, newRoundRobinPolicy  *)
(*       and the session helpers getSession / setSession over the store.   *)
(*   handler (context handler)  : contextHandler.ServeHTTP, the sticky     *)
(*       revision loop over store.CAS, and getSession, the session key     *)
(*       resolver (sessionFrom is its counterpart in the policies).        *)
(*   store                      : Get, Set, Del, CAS over redis; a call    *)
(*       either answers or, in the specifications that say so, fails.      *)
(*                                                                         *)
(* Every access to state that requests share is a step of its own: a      *)
(* store call (GET, SET, EVAL), a Reserve or its release, a weight read or *)
(* update, taking the round-robin mutex, a lister lookup.  Code that only  *)
(* touches a request's locals runs in the step that precedes it.           *)
(***************************************************************************)
EXTENDS Integers, Sequences, FiniteSets, TLC

(***************************************************************************)
(* Bounds of the model.                                                    *)
(***************************************************************************)
\* Request-handling goroutines that run a policy concurrently.
MaxCalls == 2
\* Concurrency cap of each backend's breaker (podTracker.Reserve).
MaxCap == 1
\* Length of the recorded history of sequential round-robin picks.
MaxPicks == 5
\* Requests that run contextHandler.ServeHTTP concurrently.
MaxReqs == 2

Calls == 1..MaxCalls
Reqs == 1..MaxReqs

(***************************************************************************)
(* Values.                                                                 *)
(***************************************************************************)
\* podTracker.dest of the backends known to the throttler.
Dests == {"d1", "d2", "d3"}
\* The target sets handed to a policy (ordered, no duplicates, non-empty).
TargetSets == { <<"d1", "d2", "d3">>, <<"d1", "d2">>, <<"d2">> }
\* sessionFrom(ctx): "" when the request carries no session.
Sessions == {"", "abc"}
Keys == Sessions \ {""}
\* A key the store does not hold (redis nil reply).
RedisNil == "(nil)"
\* The nil *podTracker.
NoTracker == "nil"
Policies == {"firstAvailable", "roundRobin", "randomChoice2"}
\* Nobody holds the round-robin mutex.
Unlocked == 0
\* No store.Del has replied to the invocation.
NoReply == -1

VARIABLES
    policy,       \* the lbPolicy of the revision throttler
    targets,      \* the current target set (assignedTrackers)
    store,        \* the affinity store: key -> value or RedisNil
    outstanding,  \* per backend: reservations held (breaker in-flight)
    weight,       \* per backend: podTracker.weight
    idx,          \* round-robin cursor (closure variable idx)
    mu,           \* round-robin mutex: Unlocked or the call holding it
    call,         \* per call slot: the policy invocation's local state
    picks,        \* history of sequential round-robin picks: <<cursor, index>>
    revisions,    \* the revisions the revision lister resolves
    revStore,     \* the affinity store under "rev/"+session
    req,          \* per request slot: ServeHTTP's local state
    estab,        \* per session: the revisions written by a CAS from ""
    httpRequest,  \* an inbound request: headers, query, path
    annotations,  \* service.Annotations of the owning service
    resolved      \* the session key resolved for httpRequest

lbVars == <<policy, targets, store, outstanding, weight, idx, mu, call, picks>>
revVars == <<revisions, revStore, req, estab>>
keyVars == <<httpRequest, annotations, resolved>>
vars == <<lbVars, revVars, keyVars>>

(***************************************************************************)
(* The affinity store (redis).                                             *)
(***************************************************************************)
\* store.Get: redis.String(conn.Do("GET", key)); a nil reply gives "" (and
\* the error ErrNil, which every caller drops).
StoreGet(st, key) == IF st[key] = RedisNil THEN "" ELSE st[key]

\* store.Set: conn.Do("SET", key, value).
StoreSet(st, key, value) == [st EXCEPT ![key] = value]

\* The EVAL of store.Del deletes only when GET equals the argument; a nil
\* reply (Lua false) equals no string, not even "".
StoreDelHitsUnset(st, key, value) ==
    \/ st[key] # RedisNil /\ st[key] = value
    \/ st[key] = RedisNil /\ value = ""

StoreDelHits(st, key, value) == st[key] # RedisNil /\ st[key] = value

StoreDelNothing(st, key, value) == st

StoreDel(st, key, value) ==
    IF StoreDelHits(st, key, value) THEN [st EXCEPT ![key] = RedisNil] ELSE st

\* The reply of store.Del: the number of keys deleted.
StoreDelReply(st, key, value) == IF StoreDelHits(st, key, value) THEN 1 ELSE 0

(***************************************************************************)
(* Backend trackers.                                                       *)
(***************************************************************************)
\* targets[p], p counted from 0 as in the code.
At(ts, p) == ts[p + 1]

InRange(ts, p) == p >= 0 /\ p < Len(ts)

\* for _, t := range targets { if dest == t.dest { return t } }
Lookup(ts, d) ==
    IF \E p \in 0..(Len(ts) - 1) : At(ts, p) = d THEN d ELSE NoTracker

\* podTracker.Reserve succeeds while the breaker has capacity left.
CanReserve(d) == outstanding[d] < MaxCap

(***************************************************************************)
(* The sticky revision resolver: values.                                   *)
(***************************************************************************)
\* types.NamespacedName of the revisions of the cluster.
Revs == { [ns |-> "ns1", name |-> "a"], [ns |-> "ns1", name |-> "b"],
          [ns |-> "ns2", name |-> "a"] }

\* No revision (the zero NamespacedName).
NoRev == [ns |-> "", name |-> ""]

\* A string of the store, as the sequence of its pieces; "" is <<>>.
\* types.Separator
Separator == "/"

\* NamespacedName.String(): Namespace + "/" + Name.
String(n) == <<n.ns, Separator, n.name>>

\* The positions of the separator in string v.
SeparatorAt(v) == { i \in 1..Len(v) : v[i] = Separator }

Min(S) == CHOOSE x \in S : \A y \in S : x <= y

\* strings.SplitN(v, "/", 2): one part when v holds no separator, else the
\* text before the first separator and the text after it.
SplitN2(v) ==
    IF SeparatorAt(v) = {}
    THEN << v >>
    ELSE << SubSeq(v, 1, Min(SeparatorAt(v)) - 1),
            SubSeq(v, Min(SeparatorAt(v)) + 1, Len(v)) >>

\* revisionLister.Revisions(namespace).Get(name): the revision the lister
\* holds under the two strings, NoRev when it holds none (err != nil).
ListerGet(known, namespace, name) ==
    IF \E n \in known : << n.ns >> = namespace /\ << n.name >> = name
    THEN CHOOSE n \in known : << n.ns >> = namespace /\ << n.name >> = name
    ELSE NoRev

\* The EVAL of store.CAS writes when GET equals the expected value, or when
\* the key is unset and the expected value is "".
CASSwapsAlways(st, key, expected) == TRUE

CASSwaps(st, key, expected) ==
    \/ st[key] # RedisNil /\ st[key] = expected
    \/ st[key] = RedisNil /\ expected = <<>>

CASStore(st, key, expected, desired) ==
    IF CASSwaps(st, key, expected) THEN [st EXCEPT ![key] = desired] ELSE st

\* What store.CAS hands back to ServeHTTP: the value the key holds after
\* the call: the desired value after a swap, else the value found ("" for
\* an unset key).
CASValue(st, key, expected, desired) ==
    IF CASSwaps(st, key, expected) THEN desired
    ELSE IF st[key] = RedisNil THEN <<>> ELSE st[key]

IdleReq ==
    [ pc    |-> "idle",   \* position in ServeHTTP
      sess  |-> "",       \* getSession(r, service.Annotations)
      orig  |-> NoRev,    \* the revision identified from the request
      revID |-> NoRev,    \* revID
      v     |-> <<>>,     \* v (while in the loop)
      tries |-> 0,        \* turns of the loop that ended in a retry
      swapped |-> FALSE ] \* the CAS of this request wrote its revision

UpdReq(r, x) == req' = [req EXCEPT ![r] = x]

(***************************************************************************)
(* The session key resolver: requests, annotations and the strings         *)
(* functions it uses.  A path is the sequence of its pieces, each piece a  *)
(* "/" or a segment; every other string is atomic.                         *)
(***************************************************************************)
stickySessionHeaderName == "K-Session"
stickyRevisionHeaderName == "K-Revision"

HeaderNames ==
    {stickySessionHeaderName, stickyRevisionHeaderName, "K-Deactivate",
     "X-Session", "X-Rev"}
ParamNames == {"sid", "rid"}

\* The annotations getSession of the handler reads.
Deactivate == "activator.knative.dev/deactivate"
StickySessionHeader == "activator.knative.dev/sticky-session-header-name"
StickySessionQuery == "activator.knative.dev/sticky-session-query-parameter"
StickySessionPath == "activator.knative.dev/sticky-session-path-segment"
StickyRevisionHeader == "activator.knative.dev/sticky-revision-header-name"
StickyRevisionQuery == "activator.knative.dev/sticky-revision-query-parameter"
StickyRevisionPath == "activator.knative.dev/sticky-revision-path-segment"
\* The annotations sessionFrom of the policies reads.
SessionHeader == "activator.knative.dev/session-header"
SessionQuery == "activator.knative.dev/session-query"
SessionPath == "activator.knative.dev/session-path"

\* The headers, query and annotations that hold the given values.
HeaderOf(ks, xs, xr, kr) ==
    [ n \in HeaderNames |->
        CASE n = stickySessionHeaderName  -> ks
          [] n = "X-Session"              -> xs
          [] n = "X-Rev"                  -> xr
          [] n = stickyRevisionHeaderName -> kr
          [] OTHER                        -> <<>> ]

QueryOf(sid, rid) == [ n \in ParamNames |-> IF n = "sid" THEN sid ELSE rid ]

AnnotationsOf(d, sh, sq, sp, rh, rq, rp) ==
    [ k \in {Deactivate, StickySessionHeader, StickySessionQuery,
             StickySessionPath, StickyRevisionHeader, StickyRevisionQuery,
             StickyRevisionPath} |->
        CASE k = Deactivate           -> d
          [] k = StickySessionHeader  -> sh
          [] k = StickySessionQuery   -> sq
          [] k = StickySessionPath    -> sp
          [] k = StickyRevisionHeader -> rh
          [] k = StickyRevisionQuery  -> rq
          [] OTHER                    -> rp ]

PolicyAnnotationsOf(sh, sq, sp) ==
    [ k \in {SessionHeader, SessionQuery, SessionPath} |->
        CASE k = SessionHeader -> sh
          [] k = SessionQuery  -> sq
          [] OTHER             -> sp ]

\* The requests: each header with no value or one value (K-Session also
\* with an empty value), each query parameter absent ("") or set.
Requests ==
    { [ header |-> HeaderOf(ks, xs, xr, kr),
        query  |-> QueryOf(sid, rid),
        path   |-> pa ] :
        ks \in {<<>>, <<"">>, <<"k">>}, xs \in {<<>>, <<"h">>},
        xr \in {<<>>, <<"xr">>}, kr \in {<<>>, <<"r">>},
        sid \in {"", "q"}, rid \in {"", "rq"},
        pa \in { <<>>, <<Separator, "a">>, <<Separator, "a", Separator, "b">> } }

\* The annotations of a service, as the handler reads them.
Annotations ==
    { AnnotationsOf(d, sh, sq, sp, rh, rq, rp) :
        d \in {"", "true"}, sh \in {"", "X-Session"}, sq \in {"", "sid"},
        sp \in {"", "0", "1", "-1", "x"}, rh \in {"", "X-Rev"},
        rq \in {"", "rid"}, rp \in {"", "0"} }

\* The annotations the policies find in the context.
PolicyAnnotations ==
    { PolicyAnnotationsOf(sh, sq, sp) :
        sh \in {"", "X-Session"}, sq \in {"", "sid"}, sp \in {"", "0"} }

\* http.Header.Get: the first value of the header, "" when it has none.
HeaderGet(r, name) ==
    IF r.header[name] = <<>> THEN "" ELSE r.header[name][1]

\* http.Header.Add: one more value after those the header has.
HeaderAdd(r, name, value) ==
    [r EXCEPT !.header[name] = Append(@, value)]

\* r.URL.Query().Get(p)
QueryGet(r, name) == r.query[name]

\* strings.TrimPrefix(path, "/")
TrimPrefix(path) ==
    IF Len(path) > 0 /\ path[1] = Separator THEN Tail(path) ELSE path

\* The text of a run of pieces that holds no separator.
Text(pieces) == IF pieces = <<>> THEN "" ELSE pieces[1]

\* strings.Split(s, "/"): the texts between the separators, one more than
\* there are separators.
RECURSIVE Split(_)
Split(v) ==
    IF SeparatorAt(v) = {}
    THEN << Text(v) >>
    ELSE << Text(SubSeq(v, 1, Min(SeparatorAt(v)) - 1)) >>
            \o Split(SubSeq(v, Min(SeparatorAt(v)) + 1, Len(v)))

\* strconv.Atoi: the integer a decimal numeral denotes, an error otherwise.
Atoi(p) ==
    CASE p = "-1" -> [ok |-> TRUE, n |-> -1]
      [] p = "0"  -> [ok |-> TRUE, n |-> 0]
      [] p = "1"  -> [ok |-> TRUE, n |-> 1]
      [] OTHER    -> [ok |-> FALSE, n |-> 0]

\* if n, err := strconv.Atoi(p); err == nil { parts := ...;
\* if n < len(parts) { return parts[n] } }: does the rule return, and what.
\* A negative n passes the test and parts[n] panics.
PathSegment(p, r) ==
    LET parts == Split(TrimPrefix(r.path))
        n     == Atoi(p).n
    IN  IF p # "" /\ Atoi(p).ok /\ n < Len(parts)
        THEN IF n < 0
             THEN [returns |-> TRUE, panics |-> TRUE, value |-> ""]
             ELSE [returns |-> TRUE, panics |-> FALSE, value |-> parts[n + 1]]
        ELSE [returns |-> FALSE, panics |-> FALSE, value |-> ""]

\* What a resolver call leaves: the key and the request.
Returned(session, r) == [pc |-> "returned", session |-> session, request |-> r]
Panicked(r) == [pc |-> "panic", session |-> "", request |-> r]

\* addStickySessionHeader(r, session)
addStickySessionHeader(r, session) ==
    Returned(session,
             IF session # "" THEN HeaderAdd(r, stickySessionHeaderName, session)
             ELSE r)

\* getSession(r, annotations) of the handler.
getSession(r0, a) ==
    LET r == IF a[Deactivate] # ""
             THEN HeaderAdd(r0, "K-Deactivate", a[Deactivate]) ELSE r0
    IN  IF HeaderGet(r, stickySessionHeaderName) # ""
        THEN Returned(HeaderGet(r, stickySessionHeaderName), r)
        ELSE IF a[StickySessionHeader] # ""
        THEN addStickySessionHeader(r, HeaderGet(r, a[StickySessionHeader]))
        ELSE IF a[StickySessionQuery] # ""
        THEN addStickySessionHeader(r, QueryGet(r, a[StickySessionQuery]))
        ELSE IF PathSegment(a[StickySessionPath], r).returns
        THEN IF PathSegment(a[StickySessionPath], r).panics
             THEN Panicked(r)
             ELSE addStickySessionHeader(
                      r, PathSegment(a[StickySessionPath], r).value)
        ELSE IF a[StickyRevisionHeader] # ""
        THEN Returned(HeaderGet(r, a[StickyRevisionHeader]), r)
        ELSE IF a[StickyRevisionQuery] # ""
        THEN Returned(QueryGet(r, a[StickyRevisionQuery]), r)
        ELSE IF PathSegment(a[StickyRevisionPath], r).returns
        THEN IF PathSegment(a[StickyRevisionPath], r).panics
             THEN Panicked(r)
             ELSE Returned(PathSegment(a[StickyRevisionPath], r).value, r)
        ELSE Returned(HeaderGet(r, stickyRevisionHeaderName), r)

\* sessionFrom(ctx) of the policies, on the request and annotations of ctx.
sessionFrom(r, a) ==
    IF HeaderGet(r, "K-Session") # ""
    THEN Returned(HeaderGet(r, "K-Session"), r)
    ELSE IF a[SessionHeader] # ""
    THEN Returned(HeaderGet(r, a[SessionHeader]), r)
    ELSE IF a[SessionQuery] # ""
    THEN Returned(QueryGet(r, a[SessionQuery]), r)
    ELSE IF PathSegment(a[SessionPath], r).returns
    THEN IF PathSegment(a[SessionPath], r).panics
         THEN Panicked(r)
         ELSE Returned(PathSegment(a[SessionPath], r).value, r)
    ELSE Returned("", r)

\* No request is being resolved.
NoRequest ==
    [ header |-> HeaderOf(<<>>, <<>>, <<>>, <<>>),
      query  |-> QueryOf("", ""),
      path   |-> <<>> ]

NoAnnotations == AnnotationsOf("", "", "", "", "", "", "")

Unresolved ==
    [ pc      |-> "start",               \* start, handler, policy
      handler |-> Returned("", NoRequest),  \* what getSession left
      policy  |-> Returned("", NoRequest),  \* what sessionFrom left
      ctx     |-> PolicyAnnotationsOf("", "", "") ]  \* sessionFrom's annotations

KeyIdle ==
    /\ httpRequest = NoRequest
    /\ annotations = NoAnnotations
    /\ resolved = Unresolved

(***************************************************************************)
(* Local state of one policy invocation.                                   *)
(***************************************************************************)
IdleCall ==
    [ pc     |-> "idle",      \* position in the policy
      sess   |-> "",          \* sessionFrom(ctx)
      tgts   |-> <<>>,        \* the targets argument
      dest   |-> "",          \* dest of the last store.Get, while in use
      i      |-> 0,           \* loop counter of the scan
      p      |-> 0,           \* index reserved by the scan
      cur0   |-> 0,           \* round robin: the cursor found at mu.Lock()
      pick   |-> NoTracker,   \* the candidate
      alt    |-> NoTracker,   \* randomChoice2: the other contestant, and
      w      |-> 0,           \* pick.getWeight(), until they are compared
      cb     |-> "noop",      \* the release callback in hand
      result |-> NoTracker,   \* the tracker returned
      held   |-> NoTracker,   \* backend whose reservation this call holds
      sticky |-> FALSE,       \* returned by getSession (sticky hit)
      first  |-> "?",         \* did the request's first Get find the key
                              \* unbound: "?" until then, "yes" or "no"
      stale  |-> "",          \* stale destination getSession found
      deleted |-> NoReply,    \* reply of store.Del (which getSession drops)
      err    |-> FALSE ]      \* a store call of this invocation failed

Upd(c, r) == call' = [call EXCEPT ![c] = r]

\* The policy has returned: its locals are gone, what it returned stays.
Leave(x) ==
    [x EXCEPT !.pc = "returned", !.dest = "", !.i = 0, !.p = 0, !.cur0 = 0,
              !.alt = NoTracker, !.w = 0, !.deleted = NoReply]

Init ==
    /\ policy \in Policies
    /\ targets \in TargetSets
    /\ store \in [Keys -> Dests \cup {RedisNil}]
    /\ outstanding = [d \in Dests |-> 0]
    /\ weight = [d \in Dests |-> 0]
    /\ idx = 0
    /\ mu = Unlocked
    /\ call = [c \in Calls |-> IdleCall]
    /\ picks = <<>>
    /\ revisions = Revs
    /\ revStore = [k \in Keys |-> RedisNil]
    /\ req = [r \in Reqs |-> IdleReq]
    /\ estab = [k \in Keys |-> <<>>]
    /\ KeyIdle

\* return noop, nil
ReturnNil(c) == Leave([call[c] EXCEPT !.result = NoTracker, !.cb = "noop"])

(***************************************************************************)
(* The caller (the throttler): it runs the policy on the current target    *)
(* set, runs it again when the policy returns no tracker, and invokes the  *)
(* release callback when the request is done.                              *)
(***************************************************************************)
\* First step of the selection, after getSession returned nil.
SelectPc ==
    CASE policy = "firstAvailable" -> "faScan"
      [] policy = "roundRobin"     -> "rrLock"
      [] policy = "randomChoice2"  -> "p2cDraw"

\* Where a policy invocation starts: getSession makes no store call and
\* returns nil when sessionFrom(ctx) = "".
EntryPc(s) == IF s = "" THEN SelectPc ELSE "getSession"

\* A new request enters the policy with session s.
Call(c, s) ==
    /\ call[c].pc = "idle"
    /\ Upd(c, [IdleCall EXCEPT !.pc = EntryPc(s), !.sess = s, !.tgts = targets])
    /\ UNCHANGED <<keyVars, revVars, policy, targets, store, outstanding, weight, idx, mu, picks>>

\* The policy returned (noop, nil): the caller runs it again.
Retry(c) ==
    /\ call[c].pc = "returned"
    /\ call[c].result = NoTracker
    /\ Upd(c, [IdleCall EXCEPT !.pc = EntryPc(call[c].sess), !.sess = call[c].sess,
                               !.tgts = targets, !.first = call[c].first])
    /\ UNCHANGED <<keyVars, revVars, policy, targets, store, outstanding, weight, idx, mu, picks>>

\* The request is done (or given up): the caller invokes the callback.
Release(c) ==
    /\ call[c].pc = "returned"
    /\ outstanding' =
          IF call[c].cb = "release"
          THEN [outstanding EXCEPT ![call[c].held] = @ - 1]
          ELSE outstanding
    /\ weight' =
          IF call[c].cb = "decreaseWeight"
          THEN [weight EXCEPT ![call[c].result] = @ - 1]
          ELSE weight
    /\ Upd(c, IdleCall)
    /\ UNCHANGED <<keyVars, revVars, policy, targets, store, idx, mu, picks>>

(***************************************************************************)
(* getSession(ctx, targets)                                                *)
(***************************************************************************)
\* return t: the policy returns (noop, pick) at once.
StickyHitCounted(c, d, t) ==
    Leave([call[c] EXCEPT !.result = t, !.cb = "decreaseWeight",
                          !.sticky = TRUE])

StickyHit(c, d, t) ==
    Leave([call[c] EXCEPT !.result = t, !.cb = "noop", !.sticky = TRUE])

\* dest, _ := store.Get(ctx, session), then the search of targets.
getSession_Get(c) ==
    /\ call[c].pc = "getSession"
    /\ call[c].sess # ""
    /\ LET d == StoreGet(store, call[c].sess)
           t == IF d # "" THEN Lookup(call[c].tgts, d) ELSE NoTracker
           f == IF call[c].first # "?" THEN call[c].first
                ELSE IF d = "" THEN "yes" ELSE "no"
       IN  IF t # NoTracker
           THEN Upd(c, [StickyHit(c, d, t) EXCEPT !.first = f])
           ELSE Upd(c, [call[c] EXCEPT !.pc = "getSessionDel", !.dest = d,
                                       !.first = f])
    /\ UNCHANGED <<keyVars, revVars, policy, targets, store, outstanding, weight, idx, mu, picks>>

\* store.Del(ctx, session, dest), then return nil.
getSession_DelAny(c) ==
    /\ call[c].pc = "getSessionDel"
    /\ store' = [store EXCEPT ![call[c].sess] = RedisNil]
    /\ Upd(c, [call[c] EXCEPT
                  !.pc = SelectPc, !.stale = call[c].dest,
                  !.deleted = IF store[call[c].sess] = RedisNil THEN 0 ELSE 1])
    /\ UNCHANGED <<keyVars, revVars, policy, targets, outstanding, weight, idx, mu, picks>>

getSession_Del(c) ==
    /\ call[c].pc = "getSessionDel"
    /\ store' = StoreDel(store, call[c].sess, call[c].dest)
    /\ Upd(c, [call[c] EXCEPT
                  !.pc = SelectPc, !.stale = call[c].dest,
                  !.deleted = StoreDelReply(store, call[c].sess, call[c].dest)])
    /\ UNCHANGED <<keyVars, revVars, policy, targets, outstanding, weight, idx, mu, picks>>

(***************************************************************************)
(* setSession(ctx, pick)                                                   *)
(***************************************************************************)
\* Where a policy goes with its candidate: setSession makes no store call
\* and returns true when the request has no session.
AfterPickPc(s) == IF s = "" THEN "finish" ELSE "setSessionGet"

\* dest != "" && dest != pick.dest
Conflict(d, pk) == d # "" /\ d # pk

\* dest, _ := store.Get(ctx, session); return false on a different binding.
\* randomChoice2Policy then returns (noop, nil) at once; the other two
\* have a reservation to give back first.
setSession_Get(c) ==
    /\ call[c].pc = "setSessionGet"
    /\ LET d == StoreGet(store, call[c].sess)
       IN  IF Conflict(d, call[c].pick)
           THEN IF policy = "randomChoice2"
                THEN Upd(c, ReturnNil(c))
                ELSE Upd(c, [call[c] EXCEPT !.pc = "abort", !.dest = d])
           ELSE Upd(c, [call[c] EXCEPT !.pc = "setSessionSet", !.dest = ""])
    /\ UNCHANGED <<keyVars, revVars, policy, targets, store, outstanding, weight, idx, mu, picks>>

\* store.Set(ctx, session, pick.dest); return true.
setSession_Set(c) ==
    /\ call[c].pc = "setSessionSet"
    /\ store' = StoreSet(store, call[c].sess, call[c].pick)
    /\ Upd(c, [call[c] EXCEPT !.pc = "finish"])
    /\ UNCHANGED <<keyVars, revVars, policy, targets, outstanding, weight, idx, mu, picks>>

(***************************************************************************)
(* Shared ends of a policy invocation.                                     *)
(***************************************************************************)
\* The reservation taken on backend d at index p of the scan.
Reserved(c, d, p) ==
    [call[c] EXCEPT !.pc = AfterPickPc(call[c].sess), !.pick = d, !.p = p,
                    !.held = d, !.cb = "release"]

\* cb(): the reservation goes back to the breaker.
GiveBack(c) == [outstanding EXCEPT ![call[c].held] = @ - 1]

(***************************************************************************)
(* firstAvailableLBPolicy                                                  *)
(***************************************************************************)
\* One turn of "for _, t := range targets": t.Reserve(ctx).  A failed
\* Reserve on the last target ends the loop: return noop, nil.
firstAvailable_ReserveBlind(c) ==
    /\ policy = "firstAvailable"
    /\ call[c].pc = "faScan"
    /\ LET t == At(call[c].tgts, call[c].i)
       IN  /\ outstanding' = [outstanding EXCEPT ![t] = @ + 1]
           /\ Upd(c, Reserved(c, t, call[c].i))
    /\ UNCHANGED <<keyVars, revVars, policy, targets, store, weight, idx, mu, picks>>

firstAvailable_Reserve(c) ==
    /\ policy = "firstAvailable"
    /\ call[c].pc = "faScan"
    /\ LET t == At(call[c].tgts, call[c].i)
       IN  IF CanReserve(t)
           THEN /\ outstanding' = [outstanding EXCEPT ![t] = @ + 1]
                /\ Upd(c, Reserved(c, t, call[c].i))
           ELSE /\ outstanding' = outstanding
                /\ IF call[c].i + 1 < Len(call[c].tgts)
                   THEN Upd(c, [call[c] EXCEPT !.i = @ + 1])
                   ELSE Upd(c, ReturnNil(c))
    /\ UNCHANGED <<keyVars, revVars, policy, targets, store, weight, idx, mu, picks>>

\* setSession returned false: cb(); return noop, nil.
firstAvailable_AbortNoRelease(c) ==
    /\ policy = "firstAvailable"
    /\ call[c].pc = "abort"
    /\ Upd(c, ReturnNil(c))
    /\ UNCHANGED <<keyVars, revVars, policy, targets, store, outstanding, weight, idx, mu, picks>>

firstAvailable_Abort(c) ==
    /\ policy = "firstAvailable"
    /\ call[c].pc = "abort"
    /\ outstanding' = GiveBack(c)
    /\ Upd(c, [ReturnNil(c) EXCEPT !.held = NoTracker])
    /\ UNCHANGED <<keyVars, revVars, policy, targets, store, weight, idx, mu, picks>>

\* setSession returned true: return cb, t.
firstAvailable_Return(c) ==
    /\ policy = "firstAvailable"
    /\ call[c].pc = "finish"
    /\ Upd(c, Leave([call[c] EXCEPT !.result = call[c].pick]))
    /\ UNCHANGED <<keyVars, revVars, policy, targets, store, outstanding, weight, idx, mu, picks>>

(***************************************************************************)
(* newRoundRobinPolicy                                                     *)
(***************************************************************************)
\* if idx >= l { idx = 0 }
ResetCursorNever(cur, l) == cur

ResetCursor(cur, l) == IF cur >= l THEN 0 ELSE cur

\* p := (idx + i) % l
ScanIndex(cur, i, l) == (cur + i) % l

\* idx = p + 1
NextCursorStay(p) == p

NextCursor(p) == p + 1

\* mu.Lock(); defer mu.Unlock(); the cursor reset.  The mutex is held from
\* here until the policy returns.
roundRobin_Lock(c) ==
    /\ policy = "roundRobin"
    /\ call[c].pc = "rrLock"
    /\ mu = Unlocked
    /\ mu' = c
    /\ idx' = ResetCursor(idx, Len(call[c].tgts))
    /\ Upd(c, [call[c] EXCEPT !.pc = "rrScan", !.i = 0, !.cur0 = idx])
    /\ UNCHANGED <<keyVars, revVars, policy, targets, store, outstanding, weight, picks>>

\* One turn of the scan: targets[p].Reserve(ctx).  An index outside the
\* slice panics (the deferred Unlock still runs).  A failed Reserve on
\* the last turn ends the loop: return noop, nil.
roundRobin_ReserveAdvance(c) ==
    /\ policy = "roundRobin"
    /\ call[c].pc = "rrScan"
    /\ LET l == Len(call[c].tgts)
           p == ScanIndex(idx, call[c].i, l)
       IN  IF ~InRange(call[c].tgts, p)
           THEN /\ Upd(c, [call[c] EXCEPT !.pc = "panic", !.p = p])
                /\ mu' = Unlocked
                /\ outstanding' = outstanding
                /\ idx' = idx
           ELSE IF CanReserve(At(call[c].tgts, p))
           THEN /\ outstanding' =
                      [outstanding EXCEPT ![At(call[c].tgts, p)] = @ + 1]
                /\ Upd(c, Reserved(c, At(call[c].tgts, p), p))
                /\ mu' = mu
                /\ idx' = idx
           ELSE /\ outstanding' = outstanding
                /\ IF call[c].i + 1 < l
                   THEN Upd(c, [call[c] EXCEPT !.i = @ + 1, !.p = p])
                        /\ mu' = mu /\ idx' = idx
                   ELSE Upd(c, ReturnNil(c))
                        /\ mu' = Unlocked /\ idx' = NextCursor(p)
    /\ UNCHANGED <<keyVars, revVars, policy, targets, store, weight, picks>>

roundRobin_Reserve(c) ==
    /\ policy = "roundRobin"
    /\ call[c].pc = "rrScan"
    /\ LET l == Len(call[c].tgts)
           p == ScanIndex(idx, call[c].i, l)
       IN  IF ~InRange(call[c].tgts, p)
           THEN /\ Upd(c, [call[c] EXCEPT !.pc = "panic", !.p = p])
                /\ mu' = Unlocked
                /\ outstanding' = outstanding
           ELSE IF CanReserve(At(call[c].tgts, p))
           THEN /\ outstanding' =
                      [outstanding EXCEPT ![At(call[c].tgts, p)] = @ + 1]
                /\ Upd(c, Reserved(c, At(call[c].tgts, p), p))
                /\ mu' = mu
           ELSE /\ outstanding' = outstanding
                /\ IF call[c].i + 1 < l
                   THEN Upd(c, [call[c] EXCEPT !.i = @ + 1, !.p = p]) /\ mu' = mu
                   ELSE Upd(c, ReturnNil(c)) /\ mu' = Unlocked
    /\ UNCHANGED <<keyVars, revVars, policy, targets, store, weight, idx, picks>>

\* setSession returned false: cb(); return noop, nil (and the Unlock).
roundRobin_Abort(c) ==
    /\ policy = "roundRobin"
    /\ call[c].pc = "abort"
    /\ outstanding' = GiveBack(c)
    /\ mu' = Unlocked
    /\ Upd(c, [ReturnNil(c) EXCEPT !.held = NoTracker])
    /\ UNCHANGED <<keyVars, revVars, policy, targets, store, weight, idx, picks>>

\* setSession returned true: idx = p + 1; return cb, targets[p] (and the
\* Unlock).  log: the pick is appended to the history.
roundRobin_ReturnLog(c, log) ==
    /\ policy = "roundRobin"
    /\ call[c].pc = "finish"
    /\ idx' = NextCursor(call[c].p)
    /\ mu' = Unlocked
    /\ picks' = IF log THEN Append(picks, <<call[c].cur0, call[c].p>>) ELSE picks
    /\ Upd(c, Leave([call[c] EXCEPT !.result = call[c].pick]))
    /\ UNCHANGED <<keyVars, revVars, policy, targets, store, outstanding, weight>>

roundRobin_Return(c) == roundRobin_ReturnLog(c, FALSE)

(***************************************************************************)
(* randomChoice2Policy                                                     *)
(***************************************************************************)
\* if r2 >= r1 { r2++ }
ShiftNever(r1, r2) == r2

Shift(r1, r2) == IF r2 >= r1 THEN r2 + 1 ELSE r2

\* r1, r2 := 0, 1; with l > 2: rand.Intn(l), rand.Intn(l-1) and the shift.
DrawsAlways(l) ==
    { <<r1, Shift(r1, r2)>> : r1 \in 0..(l - 1), r2 \in 0..(l - 2) }

Draws(l) ==
    IF l > 2
    THEN { <<r1, Shift(r1, r2)>> : r1 \in 0..(l - 1), r2 \in 0..(l - 2) }
    ELSE { <<0, 1>> }

\* One tracker: pick := targets[0].  Otherwise the draw of the two
\* contestants and the first read, pick.getWeight().
randomChoice2_Draw(c) ==
    /\ policy = "randomChoice2"
    /\ call[c].pc = "p2cDraw"
    /\ IF Len(call[c].tgts) = 1
       THEN Upd(c, [call[c] EXCEPT !.pc = AfterPickPc(call[c].sess),
                                   !.pick = At(call[c].tgts, 0)])
       ELSE \E r \in Draws(Len(call[c].tgts)) :
               Upd(c, [call[c] EXCEPT !.pc = "p2cCompare",
                                      !.pick = At(call[c].tgts, r[1]),
                                      !.alt = At(call[c].tgts, r[2]),
                                      !.w = weight[At(call[c].tgts, r[1])]])
    /\ UNCHANGED <<keyVars, revVars, policy, targets, store, outstanding, weight, idx, mu, picks>>

\* if pick.getWeight() > alt.getWeight() { pick = alt }: the second read.
randomChoice2_Compare(c) ==
    /\ policy = "randomChoice2"
    /\ call[c].pc = "p2cCompare"
    /\ Upd(c, [call[c] EXCEPT !.pc = AfterPickPc(call[c].sess),
                              !.pick = IF call[c].w > weight[call[c].alt]
                                       THEN call[c].alt ELSE call[c].pick,
                              !.alt = NoTracker, !.w = 0])
    /\ UNCHANGED <<keyVars, revVars, policy, targets, store, outstanding, weight, idx, mu, picks>>

\* setSession returned true: pick.increaseWeight();
\* return pick.decreaseWeight, pick.
randomChoice2_ReturnNoop(c) ==
    /\ policy = "randomChoice2"
    /\ call[c].pc = "finish"
    /\ weight' = [weight EXCEPT ![call[c].pick] = @ + 1]
    /\ Upd(c, Leave([call[c] EXCEPT !.result = call[c].pick, !.cb = "noop"]))
    /\ UNCHANGED <<keyVars, revVars, policy, targets, store, outstanding, idx, mu, picks>>

randomChoice2_Return(c) ==
    /\ policy = "randomChoice2"
    /\ call[c].pc = "finish"
    /\ weight' = [weight EXCEPT ![call[c].pick] = @ + 1]
    /\ Upd(c, Leave([call[c] EXCEPT !.result = call[c].pick,
                                    !.cb = "decreaseWeight"]))
    /\ UNCHANGED <<keyVars, revVars, policy, targets, store, outstanding, idx, mu, picks>>

(***************************************************************************)
(* Specification: one revision throttler, its policy and target set fixed, *)
(* serving concurrent requests.                                            *)
(***************************************************************************)
Next ==
    \E c \in Calls :
        \/ \E s \in Sessions : Call(c, s)
        \/ Retry(c)
        \/ Release(c)
        \/ getSession_Get(c)
        \/ getSession_Del(c)
        \/ setSession_Get(c)
        \/ setSession_Set(c)
        \/ firstAvailable_Reserve(c)
        \/ firstAvailable_Abort(c)
        \/ firstAvailable_Return(c)
        \/ roundRobin_Lock(c)
        \/ roundRobin_Reserve(c)
        \/ roundRobin_Abort(c)
        \/ roundRobin_Return(c)
        \/ randomChoice2_Draw(c)
        \/ randomChoice2_Compare(c)
        \/ randomChoice2_Return(c)

Spec == Init /\ [][Next]_vars

(***************************************************************************)
(* Specification with membership changes: a round-robin throttler whose    *)
(* target set the watcher replaces at any time, serving concurrent         *)
(* session-less requests; an invocation keeps the set it was called with.  *)
(***************************************************************************)
UpdateTargets(ts) ==
    /\ ts # targets
    /\ targets' = ts
    /\ UNCHANGED <<keyVars, revVars, policy, store, outstanding, weight, idx, mu, call, picks>>

InitChurn ==
    /\ Init
    /\ policy = "roundRobin"
    /\ store = [k \in Keys |-> RedisNil]

NextChurn ==
    \/ \E ts \in TargetSets : UpdateTargets(ts)
    \/ \E c \in Calls :
        \/ Call(c, "")
        \/ Retry(c)
        \/ Release(c)
        \/ roundRobin_Lock(c)
        \/ roundRobin_Reserve(c)
        \/ roundRobin_Return(c)

SpecChurn == InitChurn /\ [][NextChurn]_vars

(***************************************************************************)
(* Transient failures of the affinity store.  A failed call leaves the     *)
(* store as it is and hands back the zero value with an error, which       *)
(* getSession and setSession drop ("dest, _ :=", a bare call).             *)
(***************************************************************************)
\* dest, _ := store.Get(ctx, session) fails: dest is "", the search of
\* targets is skipped.
getSession_GetFails(c) ==
    /\ call[c].pc = "getSession"
    /\ call[c].sess # ""
    /\ Upd(c, [call[c] EXCEPT !.pc = "getSessionDel", !.dest = "",
                              !.first = IF @ = "?" THEN "no" ELSE @,
                              !.err = TRUE])
    /\ UNCHANGED <<keyVars, revVars, policy, targets, store, outstanding, weight, idx, mu, picks>>

\* store.Del(ctx, session, dest) fails: the binding stays; return nil.
getSession_DelFails(c) ==
    /\ call[c].pc = "getSessionDel"
    /\ Upd(c, [call[c] EXCEPT !.pc = SelectPc, !.stale = call[c].dest,
                              !.deleted = 0, !.err = TRUE])
    /\ UNCHANGED <<keyVars, revVars, policy, targets, store, outstanding, weight, idx, mu, picks>>

\* dest, _ := store.Get(ctx, session) fails: dest is "", no conflict is
\* seen and setSession goes on to store.Set.
setSession_GetFails(c) ==
    /\ call[c].pc = "setSessionGet"
    /\ Upd(c, [call[c] EXCEPT !.pc = "setSessionSet", !.dest = "",
                              !.err = TRUE])
    /\ UNCHANGED <<keyVars, revVars, policy, targets, store, outstanding, weight, idx, mu, picks>>

\* store.Set(ctx, session, pick.dest) fails: nothing is written;
\* return true.
setSession_SetFails(c) ==
    /\ call[c].pc = "setSessionSet"
    /\ Upd(c, [call[c] EXCEPT !.pc = "finish", !.err = TRUE])
    /\ UNCHANGED <<keyVars, revVars, policy, targets, store, outstanding, weight, idx, mu, picks>>

(***************************************************************************)
(* Specification with store failures: the throttler of Spec, every store   *)
(* call of a policy either answering or failing.                           *)
(***************************************************************************)
NextFail ==
    \/ Next
    \/ \E c \in Calls :
        \/ getSession_GetFails(c)
        \/ getSession_DelFails(c)
        \/ setSession_GetFails(c)
        \/ setSession_SetFails(c)

SpecFail == Init /\ [][NextFail]_vars

(***************************************************************************)
(* Specification of sequential session-less round-robin calls: one caller, *)
(* a fixed target set, the cursor wherever earlier calls left it, every    *)
(* pick recorded.                                                          *)
(***************************************************************************)
\* The longest target set: the cursor never exceeds its length.
MaxLen ==
    CHOOSE n \in { Len(ts) : ts \in TargetSets } :
        \A ts \in TargetSets : Len(ts) <= n

InitRR ==
    /\ policy = "roundRobin"
    /\ targets \in TargetSets
    /\ store = [k \in Keys |-> RedisNil]
    /\ outstanding = [d \in Dests |-> 0]
    /\ weight = [d \in Dests |-> 0]
    /\ idx \in 0..MaxLen
    /\ mu = Unlocked
    /\ call = [c \in Calls |-> IdleCall]
    /\ picks = <<>>
    /\ revisions = Revs
    /\ revStore = [k \in Keys |-> RedisNil]
    /\ req = [r \in Reqs |-> IdleReq]
    /\ estab = [k \in Keys |-> <<>>]
    /\ KeyIdle

CallRR(c) == Len(picks) < MaxPicks /\ Call(c, "")

roundRobin_ReturnRR(c) == roundRobin_ReturnLog(c, TRUE)

NextRR ==
    \/ CallRR(1)
    \/ roundRobin_Lock(1)
    \/ roundRobin_Reserve(1)
    \/ roundRobin_ReturnRR(1)
    \/ Release(1)

SpecRR == InitRR /\ [][NextRR]_vars

(***************************************************************************)
(* contextHandler.ServeHTTP                                                *)
(***************************************************************************)
\* Turns of the retry loop counted per request (the count stops there).
MaxRetries == 1

\* The request is identified as revision n; the lister does not hold it:
\* sendError and return.  Else getSession: with no session the request
\* goes on with n, with a session it enters the loop with v = "".
ServeHTTP_Begin(r, n, s) ==
    /\ req[r].pc = "idle"
    /\ IF ListerGet(revisions, << n.ns >>, << n.name >>) = NoRev
       THEN UpdReq(r, [IdleReq EXCEPT !.pc = "error", !.orig = n])
       ELSE UpdReq(r, [IdleReq EXCEPT !.pc = IF s = "" THEN "done" ELSE "cas",
                                      !.sess = s, !.orig = n, !.revID = n])
    /\ UNCHANGED <<keyVars, lbVars, revisions, revStore, estab>>

\* v, _ = store.CAS(ctx, "rev/"+session, v, revID.String()); break when
\* v == revID.String(); else the split of v, which panics on parts[1]
\* when v holds no separator.
ServeHTTP_CAS(r) ==
    /\ req[r].pc = "cas"
    /\ LET k   == req[r].sess
           own == String(req[r].revID)
           new == CASValue(revStore, k, req[r].v, own)
           won == CASSwaps(revStore, k, req[r].v)
       IN  /\ revStore' = CASStore(revStore, k, req[r].v, own)
           /\ estab' = IF won /\ req[r].v = <<>>
                       THEN [estab EXCEPT ![k] = Append(@, req[r].revID)]
                       ELSE estab
           /\ IF new = own
              THEN UpdReq(r, [req[r] EXCEPT !.pc = "done", !.v = <<>>,
                                            !.tries = 0, !.swapped = won])
              ELSE IF Len(SplitN2(new)) < 2
              THEN UpdReq(r, [req[r] EXCEPT !.pc = "panic", !.v = new])
              ELSE UpdReq(r, [req[r] EXCEPT !.pc = "resolve", !.v = new])
    /\ UNCHANGED <<keyVars, lbVars, revisions>>

\* stickyRevision, err := revisionLister.Revisions(namespace).Get(name);
\* err == nil: override revID and break; else the next turn of the loop.
ServeHTTP_Resolve(r) ==
    /\ req[r].pc = "resolve"
    /\ LET parts  == SplitN2(req[r].v)
           sticky == ListerGet(revisions, parts[1], parts[2])
       IN  IF sticky # NoRev
           THEN UpdReq(r, [req[r] EXCEPT !.pc = "done", !.revID = sticky,
                                         !.v = <<>>, !.tries = 0])
           ELSE UpdReq(r, [req[r] EXCEPT
                             !.pc = "cas",
                             !.tries = IF @ <= MaxRetries THEN @ + 1 ELSE @])
    /\ UNCHANGED <<keyVars, lbVars, revisions, revStore, estab>>

\* WithRevisionAndID(ctx, revision, revID); nextHandler.ServeHTTP: the
\* request leaves the handler (as it does after sendError or a panic).
ServeHTTP_End(r) ==
    /\ req[r].pc \in {"done", "error", "panic"}
    /\ UpdReq(r, IdleReq)
    /\ UNCHANGED <<keyVars, lbVars, revisions, revStore, estab>>

\* The control plane deletes a revision.
DeleteRevision(n) ==
    /\ n \in revisions
    /\ revisions' = revisions \ {n}
    /\ UNCHANGED <<keyVars, lbVars, revStore, req, estab>>

(***************************************************************************)
(* Specification of the sticky revision resolver: concurrent requests of   *)
(* any revision, with or without the session key, while revisions go.      *)
(***************************************************************************)
InitRev ==
    /\ policy = "firstAvailable"
    /\ targets = <<"d1", "d2", "d3">>
    /\ store = [k \in Keys |-> RedisNil]
    /\ outstanding = [d \in Dests |-> 0]
    /\ weight = [d \in Dests |-> 0]
    /\ idx = 0
    /\ mu = Unlocked
    /\ call = [c \in Calls |-> IdleCall]
    /\ picks = <<>>
    /\ revisions = Revs
    /\ revStore = [k \in Keys |-> RedisNil]
    /\ req = [r \in Reqs |-> IdleReq]
    /\ estab = [k \in Keys |-> <<>>]
    /\ KeyIdle

NextRev ==
    \/ \E n \in Revs : DeleteRevision(n)
    \/ \E r \in Reqs :
        \/ \E n \in Revs, s \in Sessions : ServeHTTP_Begin(r, n, s)
        \/ ServeHTTP_CAS(r)
        \/ ServeHTTP_Resolve(r)
        \/ ServeHTTP_End(r)

SpecRev == InitRev /\ [][NextRev]_vars

(***************************************************************************)
(* Specification of the resolver with store failures: a compare-and-swap   *)
(* either answers or fails.                                                *)
(***************************************************************************)
\* v, _ = store.CAS(...) fails: nothing is written, v is the zero value ""
\* and the error is dropped; then the comparison and the split as ever.
ServeHTTP_CASFails(r) ==
    /\ req[r].pc = "cas"
    /\ LET own == String(req[r].revID)
           new == <<>>
       IN  IF new = own
           THEN UpdReq(r, [req[r] EXCEPT !.pc = "done", !.v = <<>>,
                                         !.tries = 0])
           ELSE IF Len(SplitN2(new)) < 2
           THEN UpdReq(r, [req[r] EXCEPT !.pc = "panic", !.v = new])
           ELSE UpdReq(r, [req[r] EXCEPT !.pc = "resolve", !.v = new])
    /\ UNCHANGED <<keyVars, lbVars, revisions, revStore, estab>>

NextRevFail ==
    \/ NextRev
    \/ \E r \in Reqs : ServeHTTP_CASFails(r)

SpecRevFail == InitRev /\ [][NextRevFail]_vars

(***************************************************************************)
(* Specification of the session key resolver: any request under any        *)
(* annotations goes through getSession of the handler and then, as the     *)
(* handler left it, through sessionFrom of the policy.                     *)
(***************************************************************************)
\* session := getSession(r, service.Annotations)
getSession_Resolve ==
    /\ resolved.pc = "start"
    /\ resolved' = [resolved EXCEPT
                      !.pc = "handler",
                      !.handler = getSession(httpRequest, annotations)]
    /\ UNCHANGED <<lbVars, revVars, httpRequest, annotations>>

\* sessionFrom(ctx), ctx holding the request and the annotations a.
sessionFrom_Resolve(a) ==
    /\ resolved.pc = "handler"
    /\ resolved.handler.pc = "returned"
    /\ resolved' = [resolved EXCEPT
                      !.pc = "policy",
                      !.ctx = a,
                      !.policy = sessionFrom(resolved.handler.request, a)]
    /\ UNCHANGED <<lbVars, revVars, httpRequest, annotations>>

InitKey ==
    /\ policy = "firstAvailable"
    /\ targets = <<"d1", "d2", "d3">>
    /\ store = [k \in Keys |-> RedisNil]
    /\ outstanding = [d \in Dests |-> 0]
    /\ weight = [d \in Dests |-> 0]
    /\ idx = 0
    /\ mu = Unlocked
    /\ call = [c \in Calls |-> IdleCall]
    /\ picks = <<>>
    /\ revisions = Revs
    /\ revStore = [k \in Keys |-> RedisNil]
    /\ req = [r \in Reqs |-> IdleReq]
    /\ estab = [k \in Keys |-> <<>>]
    /\ httpRequest \in Requests
    /\ annotations \in Annotations
    /\ resolved = Unresolved

NextKey ==
    \/ getSession_Resolve
    \/ \E a \in PolicyAnnotations : sessionFrom_Resolve(a)

SpecKey == InitKey /\ [][NextKey]_vars

(***************************************************************************)
(* Properties of the policies.                                             *)
(***************************************************************************)
\* Two invocations that both came back with a tracker for session k.
BothReturned(c1, c2) ==
    /\ c1 # c2
    /\ call[c1].pc = "returned" /\ call[c2].pc = "returned"
    /\ call[c1].sess # "" /\ call[c1].sess = call[c2].sess
    /\ call[c1].tgts = call[c2].tgts
    /\ call[c1].result # NoTracker /\ call[c2].result # NoTracker

\* C1: two concurrent first requests of a brand-new session key (both found
\* the key unbound), run against the same target set, end up with the same
\* backend: whenever both have been returned a tracker, possibly after the
\* loser's retry, it is the same tracker.
FirstRequestsConverge ==
    \A c1, c2 \in Calls :
        (BothReturned(c1, c2) /\ call[c1].first = "yes" /\ call[c2].first = "yes")
            => call[c1].result = call[c2].result

\* A destination of the current target set.
Live(d) == Lookup(targets, d) # NoTracker

\* C2: for a fixed target set and session key at most one binding is
\* authoritative: no two invocations carrying the key hold two different
\* trackers, and a binding to a live destination, once in the store, is
\* never replaced by a different destination.
OneAuthoritativeBinding ==
    [][ /\ \A c1, c2 \in Calls :
              BothReturned(c1, c2)' => call'[c1].result = call'[c2].result
        /\ \A k \in Keys :
              (store[k] # RedisNil /\ Live(store[k])) => store'[k] = store[k]
      ]_vars

\* The invocations that hold a reservation on backend d.
Holders(d) == { c \in Calls : call[c].held = d }

\* C4: in first-available and round-robin every successful Reserve is paired
\* with exactly one release: a returned tracker comes with the release
\* callback of the reservation made on it, and an invocation that returns
\* no tracker holds no reservation (the policy released it itself).
ReservePairedWithRelease ==
    /\ \A d \in Dests : outstanding[d] = Cardinality(Holders(d))
    /\ \A c \in Calls :
          /\ call[c].pc = "idle" => call[c].held = NoTracker
          /\ (call[c].pc = "returned" /\ call[c].result = NoTracker)
                => (call[c].held = NoTracker /\ call[c].cb = "noop")
          /\ (call[c].pc = "returned" /\ call[c].held # NoTracker)
                => (call[c].cb = "release" /\ call[c].result = call[c].held)
          /\ (call[c].pc = "returned" /\ call[c].cb = "release")
                => call[c].held # NoTracker

\* C4 witness: a first-available or round-robin invocation reserved a
\* backend, lost the binding to another request and returned no tracker
\* with the reservation given back.
ReservePairedWitness ==
    \E c \in Calls :
        /\ policy \in {"firstAvailable", "roundRobin"}
        /\ call[c].pc = "returned" /\ call[c].result = NoTracker
        /\ call[c].pick # NoTracker
        /\ store[call[c].sess] # RedisNil
        /\ store[call[c].sess] # call[c].pick
        /\ outstanding[call[c].pick] = Cardinality(Holders(call[c].pick))

\* C5: the round-robin mutex is never held while a store call (Get, Set,
\* Del) of its holder is in progress.
MutexFreeDuringStoreCalls ==
    \A c \in Calls :
        mu = c => call[c].pc \notin {"getSession", "getSessionDel",
                                     "setSessionGet", "setSessionSet"}

\* C8: whatever target sets round-robin is called with, the scan starts from
\* a cursor below the length of the set (a stored cursor at or beyond it was
\* reset to 0) and every index it uses lies in 0..len(targets)-1: no
\* invocation panics on an index out of range.
CursorInRange ==
    \A c \in Calls :
        /\ call[c].pc # "panic"
        /\ call[c].pc = "rrScan" =>
              /\ idx < Len(call[c].tgts)
              /\ call[c].cur0 >= Len(call[c].tgts) => idx = 0
              /\ InRange(call[c].tgts,
                         ScanIndex(idx, call[c].i, Len(call[c].tgts)))
        /\ (call[c].held # NoTracker /\ call[c].pc # "returned") =>
              /\ InRange(call[c].tgts, call[c].p)
              /\ At(call[c].tgts, call[c].p) = call[c].held

\* C8 witness: the target set shrank below the stored cursor and the scan
\* runs from the reset cursor.
CursorResetWitness ==
    \E c \in Calls :
        /\ call[c].pc = "rrScan"
        /\ call[c].cur0 > Len(call[c].tgts)
        /\ idx = 0

\* C7: sequential session-less round-robin calls on n always-available
\* backends pick in cyclic order from the previous cursor position: each
\* pick is the cursor found (0 when it is at or beyond n), the next call
\* finds the cursor one past the pick, and any n consecutive picks are
\* pairwise different.
RoundRobinCyclic ==
    LET n == Len(targets)
    IN  \A j \in 1..Len(picks) :
            /\ picks[j][2] = (IF picks[j][1] >= n THEN 0 ELSE picks[j][1])
            /\ j > 1 => picks[j][1] = picks[j - 1][2] + 1
            /\ \A k \in 1..Len(picks) :
                  (k < j /\ j - k < n) => picks[k][2] # picks[j][2]

\* C7 witness: three backends, cursor 1: the picks are the 2nd, the 3rd,
\* the 1st and the 2nd again.
RoundRobinCyclicWitness ==
    /\ targets = <<"d1", "d2", "d3">>
    /\ Len(picks) >= 4
    /\ picks[1] = <<1, 1>>
    /\ <<picks[1][2], picks[2][2], picks[3][2], picks[4][2]>> = <<1, 2, 0, 1>>

\* The scan of first-available or round-robin is at its last target, which
\* has no capacity left.
ScanExhausted(c) ==
    /\ call[c].pc \in {"faScan", "rrScan"}
    /\ call[c].i = Len(call[c].tgts) - 1
    /\ \/ call[c].pc = "faScan" /\ ~CanReserve(At(call[c].tgts, call[c].i))
       \/ call[c].pc = "rrScan" /\
            ~CanReserve(At(call[c].tgts,
                           ScanIndex(idx, call[c].i, Len(call[c].tgts))))

\* setSession of invocation c finds, or has found, the key bound to a
\* destination other than its pick.
LostBinding(c) ==
    \/ call[c].pc = "abort" /\ Conflict(call[c].dest, call[c].pick)
    \/ /\ call[c].pc = "setSessionGet"
       /\ Conflict(StoreGet(store, call[c].sess), call[c].pick)

\* What holds of invocation c once getSession has found and deleted a stale
\* binding: the binding is gone and the invocation is in normal selection
\* or has returned from it.
StaleHealed(c) ==
    /\ Lookup(call[c].tgts, call[c].stale) = NoTracker
    /\ store[call[c].sess] # call[c].stale
    /\ ~call[c].sticky
    /\ call[c].pc \in {"faScan", "rrLock", "rrScan", "p2cDraw", "p2cCompare",
                       "setSessionGet", "setSessionSet", "abort", "finish",
                       "returned"}
    /\ (call[c].pc = "returned" /\ call[c].result # NoTracker) =>
          /\ Lookup(call[c].tgts, call[c].result) # NoTracker
          /\ call[c].result = call[c].pick

\* C9: a session key bound to a destination absent from the target set: the
\* policy deletes the binding and goes on, in the same invocation, with
\* normal selection: it returns a backend of the target set after binding
\* the key to it (store.Set of the pick), and returns no tracker only when
\* no backend could be reserved or another request bound the key meanwhile.
StaleBindingHeals ==
    [][ \A c \in Calls :
          /\ call'[c].stale # "" => StaleHealed(c)'
          /\ (call[c].stale # "" /\ call[c].pc = "setSessionSet"
                /\ call'[c].pc = "finish")
                => store'[call[c].sess] = call[c].pick
          /\ (call[c].stale # "" /\ call[c].pc # "returned"
                /\ call'[c].pc = "returned" /\ call'[c].result # NoTracker)
                => call[c].pc = "finish"
          /\ (call[c].stale # "" /\ call[c].pc # "returned"
                /\ call'[c].pc = "returned" /\ call'[c].result = NoTracker)
                => (ScanExhausted(c) \/ LostBinding(c))
      ]_vars

\* C9 witness: an invocation found a stale binding and returned a backend
\* of the target set, to which the key is now bound.
StaleBindingWitness ==
    \E c \in Calls :
        /\ call[c].stale # ""
        /\ call[c].pc = "returned"
        /\ call[c].result # NoTracker
        /\ Lookup(call[c].tgts, call[c].result) # NoTracker
        /\ store[call[c].sess] = call[c].result

\* Capacity, weights, cursor, mutex and bindings.
bookkeeping == <<outstanding, weight, idx, mu, store>>

\* C10: a session key bound to a destination of the target set: every
\* policy returns that tracker with a no-op release and changes no
\* bookkeeping, neither when it returns nor when the release runs: no
\* reservation, no weight change, no cursor move, no store write.
StickyHitKeepsBookkeeping ==
    [][ \A c \in Calls :
          /\ (~call[c].sticky /\ call'[c].sticky) =>
                /\ call'[c].result = StoreGet(store, call[c].sess)
                /\ Lookup(call[c].tgts, call'[c].result) # NoTracker
                /\ call'[c].pc = "returned"
                /\ call'[c].cb = "noop"
                /\ call'[c].held = NoTracker
                /\ UNCHANGED bookkeeping
          /\ (call[c].sticky /\ call'[c] # call[c]) =>
                /\ call[c].cb = "noop"
                /\ UNCHANGED bookkeeping
      ]_vars

\* C10 witness: first-available bound the key to the first backend, whose
\* capacity that request still holds; a second invocation with the same
\* key was returned the same backend without a reservation.
StickyHitWitness ==
    \E c1, c2 \in Calls :
        /\ policy = "firstAvailable"
        /\ call[c1].pc = "returned" /\ call[c2].pc = "returned"
        /\ call[c1].sess = call[c2].sess
        /\ ~call[c1].sticky /\ call[c1].held = At(targets, 0)
        /\ call[c2].sticky /\ call[c2].result = At(targets, 0)
        /\ call[c2].held = NoTracker
        /\ outstanding[At(targets, 0)] = 1

RetryLoopBounded ==
    \A r \in Reqs : req[r].tries > MaxRetries => req[r].pc = "failed"

(***************************************************************************)
(* Properties of the policies on a single target.                          *)
(***************************************************************************)
\* The sole backend of the target set invocation c runs on.
Sole(c) == At(call[c].tgts, 0)

\* Invocation c runs on a target set of size 1 and takes a step.
SoleStep(c) == Len(call[c].tgts) = 1 /\ call'[c] # call[c]

\* C11 as stated: on a target set of size 1 a policy returns the sole
\* backend whenever it has capacity and never when it has none: a call
\* that returns the backend found capacity on it (or holds the capacity it
\* took itself), and a call that returns no target found none.
SoleBackendIffCapacity ==
    [][ \A c \in Calls :
          (SoleStep(c) /\ call[c].pc # "returned" /\ call'[c].pc = "returned")
            => /\ call'[c].result = Sole(c)
                     => (CanReserve(Sole(c)) \/ call[c].held = Sole(c))
               /\ call'[c].result = NoTracker => ~CanReserve(Sole(c))
      ]_vars

\* C11 amended: on a target set of size 1, the selection of first-available
\* and round-robin takes the sole backend exactly when its Reserve succeeds
\* and returns no target when it fails; a reserved backend is returned
\* unless the binding of the session was lost to another destination;
\* power-of-two picks the sole backend without a Reserve; and a sticky hit
\* returns the bound backend whatever its capacity.
SoleBackendSelection ==
    [][ \A c \in Calls :
          SoleStep(c) =>
            /\ (call[c].pc = "getSession" /\ call'[c].pc = "returned")
                  => /\ call'[c].result = Sole(c)
                     /\ StoreGet(store, call[c].sess) = Sole(c)
                     /\ outstanding' = outstanding
            /\ call[c].pc \in {"faScan", "rrScan"}
                  => IF CanReserve(Sole(c))
                     THEN /\ call'[c].pick = Sole(c)
                          /\ call'[c].held = Sole(c)
                          /\ call'[c].pc = AfterPickPc(call[c].sess)
                          /\ outstanding'[Sole(c)] = outstanding[Sole(c)] + 1
                     ELSE /\ call'[c].pc = "returned"
                          /\ call'[c].result = NoTracker
                          /\ outstanding' = outstanding
            /\ call[c].pc = "p2cDraw"
                  => /\ call'[c].pick = Sole(c)
                     /\ call'[c].pc = AfterPickPc(call[c].sess)
                     /\ outstanding' = outstanding
            /\ call[c].pc = "finish"
                  => /\ call'[c].pc = "returned"
                     /\ call'[c].result = Sole(c)
                     /\ policy # "randomChoice2" => call[c].held = Sole(c)
            /\ call[c].pc = "abort"
                  => /\ call'[c].pc = "returned"
                     /\ call'[c].result = NoTracker
                     /\ Conflict(call[c].dest, call[c].pick)
      ]_vars

\* C11 witness: a single target whose capacity one request holds; another
\* invocation of first-available or round-robin scanned it and returned no
\* target.
SoleBackendWitness ==
    \E c1, c2 \in Calls :
        /\ policy \in {"firstAvailable", "roundRobin"}
        /\ Len(targets) = 1
        /\ call[c1].pc = "returned" /\ call[c1].held = At(targets, 0)
        /\ call[c1].result = At(targets, 0)
        /\ call[c2].pc = "returned" /\ call[c2].result = NoTracker
        /\ call[c2].tgts = targets /\ ~call[c2].sticky
        /\ outstanding[At(targets, 0)] = MaxCap

(***************************************************************************)
(* Properties under store failures.                                        *)
(***************************************************************************)
\* setSession of invocation c finds, or has found, the key bound to another
\* backend of its target set: a binding another request established.
LostToLiveBinding(c) ==
    \/ /\ call[c].pc = "abort"
       /\ Conflict(call[c].dest, call[c].pick)
       /\ Lookup(call[c].tgts, call[c].dest) # NoTracker
    \/ /\ call[c].pc = "setSessionGet"
       /\ Conflict(StoreGet(store, call[c].sess), call[c].pick)
       /\ Lookup(call[c].tgts, StoreGet(store, call[c].sess)) # NoTracker

\* C12: an invocation one of whose store calls failed (the lookup, the
\* stale delete or the establishment of the binding) goes on with ordinary
\* selection and returns a backend whenever one has capacity: it returns no
\* target only when the scan found no capacity, or when another request
\* holds the key bound to another backend of the target set.
StoreFailureFallsBack ==
    [][ \A c \in Calls :
          (call'[c].err /\ call[c].pc # "returned"
              /\ call'[c].pc = "returned" /\ call'[c].result = NoTracker)
            => (ScanExhausted(c) \/ LostToLiveBinding(c))
      ]_vars

\* C13: when a compare-and-swap does not succeed and the value it hands back
\* is empty or is no namespace/name pair, the resolver goes on with the
\* revision identified from the request: no request crashes on the split
\* of such a value, and a request that saw one leaves the loop unbound.
MalformedValueProceedsUnbound ==
    [][ \A r \in Reqs :
          (req[r].pc = "cas" /\ req'[r].pc # "cas"
              /\ Len(SplitN2(req'[r].v)) < 2)
            => /\ req'[r].pc = "done"
               /\ req'[r].revID = req[r].orig
      ]_vars

(***************************************************************************)
(* Properties of the session key resolver.                                 *)
(***************************************************************************)
\* The first non-empty value of a sequence of candidates, "" if none.
FirstNonEmpty(cands) ==
    IF \E i \in 1..Len(cands) : cands[i] # ""
    THEN cands[Min({ i \in 1..Len(cands) : cands[i] # "" })]
    ELSE ""

\* The value a rule on a configured name yields: none when not configured.
Configured(p, value) == IF p # "" THEN value ELSE ""

\* The value the path rule yields: the segment at a configured index that
\* is an integer within the path, none otherwise.
SegmentAt(p, r) ==
    IF PathSegment(p, r).returns /\ ~PathSegment(p, r).panics
    THEN PathSegment(p, r).value ELSE ""

\* The inputs the five rules cover: no revision-binding annotation is set
\* and the path index, if set, is not negative.
FiveRules ==
    /\ annotations[StickyRevisionHeader] = ""
    /\ annotations[StickyRevisionQuery] = ""
    /\ annotations[StickyRevisionPath] = ""
    /\ annotations[StickySessionPath] # "-1"

\* C14: the session key is the value of the highest-precedence rule that
\* yields one, in the order sticky header, configured header, query
\* parameter, path segment, revision header; a rule that yields no value
\* falls through, and the key is empty only when no rule yields a value.
\* The same holds of the policy's resolver on its four rules.
SessionKeyPrecedence ==
    /\ (resolved.pc # "start" /\ FiveRules) =>
          /\ resolved.handler.pc = "returned"
          /\ resolved.handler.session =
                FirstNonEmpty(<<
                    HeaderGet(httpRequest, stickySessionHeaderName),
                    Configured(annotations[StickySessionHeader],
                        HeaderGet(httpRequest, "X-Session")),
                    Configured(annotations[StickySessionQuery],
                        QueryGet(httpRequest, "sid")),
                    SegmentAt(annotations[StickySessionPath], httpRequest),
                    HeaderGet(httpRequest, stickyRevisionHeaderName) >>)
    /\ resolved.pc = "policy" =>
          /\ resolved.policy.pc = "returned"
          /\ resolved.policy.session =
                FirstNonEmpty(<<
                    HeaderGet(resolved.handler.request, stickySessionHeaderName),
                    Configured(resolved.ctx[SessionHeader],
                        HeaderGet(resolved.handler.request, "X-Session")),
                    Configured(resolved.ctx[SessionQuery],
                        QueryGet(resolved.handler.request, "sid")),
                    SegmentAt(resolved.ctx[SessionPath],
                              resolved.handler.request) >>)

(***************************************************************************)
(* Properties of power-of-two-choices.                                     *)
(***************************************************************************)
\* C15: on two targets and no sticky hit the contestants are the first and
\* the second tracker, without a draw; the pick is the lower of the two
\* weights read, the first-listed tracker when they are equal, and the pick
\* is what the policy returns.
TwoChoicesDirect ==
    [][ \A c \in Calls :
          (Len(call[c].tgts) = 2 /\ call'[c] # call[c]) =>
            /\ call[c].pc = "p2cDraw" =>
                  /\ call'[c].pc = "p2cCompare"
                  /\ call'[c].pick = At(call[c].tgts, 0)
                  /\ call'[c].alt = At(call[c].tgts, 1)
                  /\ call'[c].w = weight[At(call[c].tgts, 0)]
            /\ call[c].pc = "p2cCompare" =>
                  /\ call[c].w <= weight[At(call[c].tgts, 1)]
                        => call'[c].pick = At(call[c].tgts, 0)
                  /\ call[c].w > weight[At(call[c].tgts, 1)]
                        => call'[c].pick = At(call[c].tgts, 1)
            /\ (policy = "randomChoice2" /\ call[c].pc = "finish") =>
                  call'[c].result = call[c].pick
      ]_vars

\* C15 witness: two targets; one request holds the first (weight 1), and a
\* session-less invocation that read the two weights was returned the
\* second.
TwoChoicesWitness ==
    \E c1, c2 \in Calls :
        /\ policy = "randomChoice2"
        /\ targets = <<"d1", "d2">>
        /\ call[c1].pc = "returned" /\ call[c1].result = "d1"
        /\ call[c1].cb = "decreaseWeight"
        /\ call[c2].pc = "returned" /\ call[c2].result = "d2"
        /\ call[c2].sess = "" /\ call[c2].cb = "decreaseWeight"
        /\ weight["d1"] = 1 /\ weight["d2"] = 1

(***************************************************************************)
(* Properties of the stale delete.                                         *)
(***************************************************************************)
\* C16: store.Del removes the key only when the value stored equals the
\* value given, and then replies 1; when the stored value differs or the
\* key is unset it leaves the store as it is and replies 0.
DeleteIfEquals ==
    [][ \A c \in Calls :
          (call[c].pc = "getSessionDel" /\ call'[c] # call[c]) =>
            IF store[call[c].sess] # RedisNil
                  /\ store[call[c].sess] = call[c].dest
            THEN /\ store' = [store EXCEPT ![call[c].sess] = RedisNil]
                 /\ call'[c].deleted = 1
            ELSE /\ store' = store
                 /\ call'[c].deleted = 0
      ]_vars

\* C16 witness: two invocations found the same stale binding; the delete
\* of one removed it (reply 1), the delete of the other found the key
\* unset and did nothing (reply 0).
DeleteIfEqualsWitness ==
    \E c1, c2 \in Calls :
        /\ call[c1].sess = call[c2].sess
        /\ call[c1].stale # "" /\ call[c1].stale = call[c2].stale
        /\ call[c1].deleted = 1
        /\ call[c2].deleted = 0

\* C20: the stale delete of a policy removes the binding only if the store
\* still holds the stale destination the invocation read: a binding to a
\* backend of the target set, written by another request between that Get
\* and the Del, stays.
StaleDeleteKeepsFreshBinding ==
    [][ \A c \in Calls :
          (call[c].pc = "getSessionDel" /\ call'[c] # call[c]) =>
            /\ store'[call[c].sess] # store[call[c].sess]
                  => /\ store[call[c].sess] = call[c].dest
                     /\ Lookup(call[c].tgts, call[c].dest) = NoTracker
            /\ Lookup(call[c].tgts, StoreGet(store, call[c].sess)) # NoTracker
                  => store'[call[c].sess] = store[call[c].sess]
      ]_vars

\* C20 witness: an invocation read a stale destination, another request
\* bound the key to a backend of the target set before the Del ran, and
\* the Del left that binding in the store.
StaleDeleteWitness ==
    \E c \in Calls :
        /\ call[c].stale # ""
        /\ call[c].deleted = 0
        /\ call[c].pc = SelectPc
        /\ store[call[c].sess] # RedisNil
        /\ Lookup(call[c].tgts, store[call[c].sess]) # NoTracker

(***************************************************************************)
(* Properties of the round-robin cursor.                                   *)
(***************************************************************************)
\* The cursor the scan of invocation c started from: the cursor found at
\* mu.Lock(), 0 when that was at or beyond the length of the target set.
ScanCursor(c) ==
    IF call[c].cur0 >= Len(call[c].tgts) THEN 0 ELSE call[c].cur0

\* C17: a round-robin call that returns no target, the scan having found no
\* capacity or the binding having been lost after a reservation, leaves the
\* cursor where the scan started; a call that returns the backend at index
\* p sets the cursor to p + 1; and nothing else moves the cursor but the
\* reset at the start of a scan.
CursorAdvancesOnlyOnPick ==
    [][ /\ \A c \in Calls :
              policy = "roundRobin" =>
                /\ (call[c].pc \in {"rrScan", "abort"}
                      /\ call'[c].pc = "returned")
                      => /\ call'[c].result = NoTracker
                         /\ idx = ScanCursor(c)
                         /\ idx' = idx
                /\ (call[c].pc = "finish" /\ call'[c].pc = "returned")
                      => /\ call'[c].result = At(call[c].tgts, call[c].p)
                         /\ idx' = call[c].p + 1
        /\ idx' # idx =>
              \E c \in Calls :
                  \/ /\ call[c].pc = "finish" /\ call'[c].pc = "returned"
                     /\ call'[c].result # NoTracker
                  \/ /\ call[c].pc = "rrLock" /\ call'[c].pc = "rrScan"
                     /\ idx >= Len(call[c].tgts) /\ idx' = 0
      ]_vars

\* C17 witness: a round-robin invocation started its scan past the first
\* backend, reserved the backend under the cursor, lost the binding of its
\* session to another request and returned no target: the cursor still
\* points at the backend it had reserved.
CursorKeptWitness ==
    \E c \in Calls :
        /\ policy = "roundRobin"
        /\ call[c].pc = "returned" /\ call[c].result = NoTracker
        /\ call[c].pick # NoTracker /\ call[c].held = NoTracker
        /\ mu = Unlocked
        /\ idx > 0 /\ InRange(call[c].tgts, idx)
        /\ At(call[c].tgts, idx) = call[c].pick

\* The largest number of targets the two draws are checked for.
MaxDraw == 6

\* C18: where power-of-two draws on n > 2 targets, the two indices are
\* different and within 0..n-1 whatever the two draws (the first in
\* 0..n-1, the second in 0..n-2, shifted past the first), so the two
\* contestants are different trackers of the target set; the pick is the
\* lower of the two weights read, the first draw when they are equal.
TwoDistinctDraws ==
    [][ \A c \in Calls :
          (Len(call[c].tgts) > 2 /\ call'[c] # call[c]) =>
            /\ call[c].pc = "p2cDraw" =>
                  /\ \A n \in 3..MaxDraw :
                        \A r1 \in 0..(n - 1), r2 \in 0..(n - 2) :
                            /\ Shift(r1, r2) # r1
                            /\ Shift(r1, r2) \in 0..(n - 1)
                  /\ \A r \in Draws(Len(call[c].tgts)) :
                        /\ r[1] # r[2]
                        /\ InRange(call[c].tgts, r[1])
                        /\ InRange(call[c].tgts, r[2])
                  /\ call'[c].pc = "p2cCompare"
                  /\ call'[c].pick # call'[c].alt
                  /\ Lookup(call[c].tgts, call'[c].pick) = call'[c].pick
                  /\ Lookup(call[c].tgts, call'[c].alt) = call'[c].alt
                  /\ call'[c].w = weight[call'[c].pick]
            /\ call[c].pc = "p2cCompare" =>
                  /\ call[c].w <= weight[call[c].alt]
                        => call'[c].pick = call[c].pick
                  /\ call[c].w > weight[call[c].alt]
                        => call'[c].pick = call[c].alt
      ]_vars

\* C18 witness: three targets, both draws 1: the second draw was shifted
\* to 2, the contestants are the second and the third tracker.
TwoDistinctDrawsWitness ==
    \E c \in Calls :
        /\ call[c].tgts = <<"d1", "d2", "d3">>
        /\ call[c].pc = "p2cCompare"
        /\ call[c].pick = "d2" /\ call[c].alt = "d3"

\* The invocations that were returned backend d by selection and whose
\* release has not run.
Selected(d) ==
    { c \in Calls : /\ call[c].pc = "returned"
                    /\ call[c].result = d
                    /\ call[c].cb = "decreaseWeight" }

\* C19: in power-of-two-choices the weight of a tracker goes up by one
\* exactly when the policy returns it by selection and down by one exactly
\* when the release of that call runs; a call that returns no target or a
\* sticky hit carries a no-op release; so every weight is the number of the
\* tracker's selections not yet released (the initial weight being 0).
WeightCountsSelections ==
    [][ /\ \A d \in Dests : weight'[d] = Cardinality(Selected(d))'
        /\ \A d \in Dests :
              weight'[d] # weight[d] =>
                \E c \in Calls :
                    \/ /\ call[c].pc = "finish" /\ call'[c].pc = "returned"
                       /\ call'[c].result = d /\ ~call'[c].sticky
                       /\ call'[c].cb = "decreaseWeight"
                       /\ weight'[d] = weight[d] + 1
                    \/ /\ call[c].pc = "returned" /\ call'[c].pc = "idle"
                       /\ call[c].result = d /\ call[c].cb = "decreaseWeight"
                       /\ weight'[d] = weight[d] - 1
        /\ \A c \in Calls :
              (policy = "randomChoice2" /\ call'[c].pc = "returned") =>
                  (call'[c].cb = "decreaseWeight"
                      <=> (call'[c].result # NoTracker /\ ~call'[c].sticky))
      ]_vars

\* C19 witness: power-of-two returned a backend by selection to one request
\* and, as a sticky hit, to another: its weight is 1.
WeightCountsWitness ==
    \E c1, c2 \in Calls :
        /\ policy = "randomChoice2"
        /\ call[c1].pc = "returned" /\ call[c2].pc = "returned"
        /\ call[c1].result # NoTracker
        /\ call[c1].result = call[c2].result
        /\ ~call[c1].sticky /\ call[c1].cb = "decreaseWeight"
        /\ call[c2].sticky /\ call[c2].cb = "noop"
        /\ weight[call[c1].result] = 1

====
